---- MODULE Spec2Model ----
(***************************************************************************)
(* A model of gputhroughput (src/src/main.rs): the Throughput measurement  *)
(* (measure, approximate_link_speed), the egui App whose update() runs     *)
(* once per frame on the UI thread, and the worker threads update() spawns.*)
(*                                                                         *)
(* Units.  TLC integers are 32 bits wide, so                               *)
(*   - buffer lengths (usize, taken as 64 bits) are counted in Ki-floats   *)
(*     (1024 f32 values): the slider's MB * 1024 * 1024 / 4 floats are     *)
(*     MB * 1024 / 4 Ki-floats, and MB * 2^20 <= 10000 * 2^20 < 2^64       *)
(*     never wraps a 64-bit usize;                                         *)
(*   - durations (f64 seconds) are counted in ticks of 2^20 ns, so that    *)
(*     bytes / seconds / 1e9 = MiB / ticks GB/s;                           *)
(*   - throughputs (f64 GB/s) are fixed-point numbers with Scale units     *)
(*     per GB/s.                                                           *)
(* Option values are sequences: None is << >>, Some(x) is <<x>>.           *)
(***************************************************************************)
EXTENDS Integers, Sequences, FiniteSets, TLC

VARIABLES
    throughput,   \* the shared Measurement behind Arc<Mutex<Throughput>>
    mutex,        \* that Mutex: the workers holding it, and its poison flag
    app,          \* the App struct's own fields
    devices,      \* App.devices, enumerated once at start-up
    ui_pc,        \* the UI thread's position in update()
    clicked,      \* whether "Measure Throughput" reported a click in the frame being drawn
    drawn,        \* what the configuration column drew in the latest frame
    workers,      \* the spawned worker threads, in spawn order
    error_cell,   \* per click, the Arc<Mutex<Option<String>>> made at line 196
                  \* (None also once both of its Arcs are dropped)
    measurement,  \* a Measurement handed to approximate_link_speed
    first_call,   \* the result of a first approximate_link_speed call on it
    second_call   \* the result of a second call on the same Measurement

vars == <<throughput, mutex, app, devices, ui_pc, clicked, drawn,
          workers, error_cell, measurement, first_call, second_call>>

gui_vars == <<throughput, mutex, app, devices, ui_pc, clicked, drawn,
              workers, error_cell>>

approx_vars == <<measurement, first_call, second_call>>

----------------------------------------------------------------------------
(* Bounds *)

MaxClicks == 2

MaxDevices == 2

MaxTicks == 1

Scale == 2

MaxGBps == 66

----------------------------------------------------------------------------
(* Program constants *)

SliderMin == 1

SliderMax == 10000

DefaultDataSize == 1024

SizeOfF32 == 4

I32Max == 2147483647

None == << >>

Some(x) == <<x>>

\* Throughput::new
NewThroughput ==
    [h2d_throughput |-> 0, d2h_throughput |-> 0, h2d_duration |-> 0, d2h_duration |-> 0]

\* the entries of pcie_speeds, in the order the array literal lists them
TableKeys == <<1, 2, 4, 8, 16, 32, 64>>

pcie_speeds ==
    (1 :> <<"PCIe 1.0 x4", "PCIe 2.0 x2", "PCIe 3.0 x1">>) @@
    (2 :> <<"PCIe 1.0 x8", "PCIe 2.0 x4", "PCIe 3.0 x2", "PCIe 4.0 x1">>) @@
    (4 :> <<"PCIe 1.0 x16", "PCIe 2.0 x8", "PCIe 3.0 x4", "PCIe 4.0 x2", "PCIe 5.0 x1">>) @@
    (8 :> <<"PCIe 2.0 x16", "PCIe 3.0 x8", "PCIe 4.0 x4", "PCIe 5.0 x2">>) @@
    (16 :> <<"PCIe 3.0 x16", "PCIe 4.0 x8", "PCIe 5.0 x4">>) @@
    (32 :> <<"PCIe 4.0 x16", "PCIe 5.0 x8">>) @@
    (64 :> <<"PCIe 5.0 x16">>)

----------------------------------------------------------------------------
(* Throughput::approximate_link_speed *)

Abs(x) == IF x < 0 THEN -x ELSE x

\* (a variant that truncates the average, as a bare `as i32` would)
RoundedAvgWrong(m) ==
    (m.h2d_throughput + m.d2h_throughput) \div (2 * Scale)

\* ((h2d + d2h) / 2.0).round() as i32: f64::round rounds half away from zero
\* (the throughputs are never negative), and the cast saturates.
RoundedAvg(m) ==
    LET sum == m.h2d_throughput + m.d2h_throughput
        r == (sum + Scale) \div (2 * Scale)
    IN  IF r > I32Max THEN I32Max ELSE r

\* Iterator::min_by over the keys in iteration order `order`: of two keys at
\* the same distance the one met first is kept.
RECURSIVE MinByFrom(_, _, _, _)
MinByFrom(order, i, best, r) ==
    IF i > Len(order) THEN best
    ELSE MinByFrom(order, i + 1,
                   IF Abs(best - r) > Abs(order[i] - r) THEN order[i] ELSE best, r)

\* (a variant that compares the signed differences, without abs())
RECURSIVE MinBySignedFrom(_, _, _, _)
MinBySignedFrom(order, i, best, r) ==
    IF i > Len(order) THEN best
    ELSE MinBySignedFrom(order, i + 1,
                         IF (best - r) > (order[i] - r) THEN order[i] ELSE best, r)

MinBySigned(order, r) == MinBySignedFrom(order, 2, order[1], r)

MinBy(order, r) == MinByFrom(order, 2, order[1], r)

Reverse(s) == [i \in 1..Len(s) |-> s[Len(s) + 1 - i]]

Rotate(s, n) == [i \in 1..Len(s) |-> s[((i + n - 1) % Len(s)) + 1]]

\* The orders in which iterating the HashMap may yield the keys.  A HashMap
\* seeded by RandomState may yield any permutation; min_by keeps the first
\* minimum and at most two keys (the neighbours of r) can tie, so its result
\* depends only on which of two neighbouring keys comes first.  The ascending
\* and the descending scan and their rotations hold both relative orders of
\* every pair of keys, so they yield every result that some permutation
\* yields (for every rounded average, the 5040 permutations and these 14
\* orders give the same set of results).
IterationOrders ==
    {Rotate(TableKeys, n) : n \in 0..(Len(TableKeys) - 1)} \cup
    {Rotate(Reverse(TableKeys), n) : n \in 0..(Len(TableKeys) - 1)}

approximate_link_speed(m, order) ==
    LET closest_match == MinBy(order, RoundedAvg(m))
    IN  <<closest_match, pcie_speeds[closest_match]>>

----------------------------------------------------------------------------
(* Throughput::measure, run by a worker thread *)

\* (a variant that divides by the size of an f64)
DataSizeWrong(mb) == (mb * 1024) \div (2 * SizeOfF32)

\* (self.data_size * 1024 * 1024) / size_of::<f32>(), in Ki-floats
DataSize(mb) == (mb * 1024) \div SizeOfF32

\* (data_size * size_of::<f32>()) as f64 / duration / 1e9, in fixed point
ThroughputOf(data_size, ticks) ==
    (Scale * ((data_size * SizeOfF32) \div 1024)) \div ticks

Format(e) == "Error: " \o e

InMeasure == {"open", "h2d", "d2h"}

Workers == 1..Len(workers)

Running == ui_pc # "panicked"

SetWorker(w, r) == [workers EXCEPT ![w] = r]

\* a thread that has ended: its captures and locals are dropped
Ended(how) ==
    [pc |-> how, device |-> None, data_size |-> 0,
     ctx |-> "dropped", ret |-> None, entry |-> NewThroughput]

\* (a variant that enters measure without waiting for the mutex)
WorkerLockNoWait(w) ==
    /\ Running
    /\ workers[w].pc = "lock"
    /\ IF mutex.poisoned
       THEN /\ workers' = SetWorker(w, Ended("panicked"))
            /\ mutex' = mutex
       ELSE /\ workers' = SetWorker(w, [workers[w] EXCEPT !.pc = "open", !.entry = throughput])
            /\ mutex' = [mutex EXCEPT !.holder = @ \cup {w}]
    /\ UNCHANGED <<throughput, app, devices, ui_pc, clicked, drawn, error_cell>>
    /\ UNCHANGED approx_vars

\* let mut throughput = throughput.lock().unwrap(): waits for the mutex, and
\* panics when it was poisoned
WorkerLock(w) ==
    /\ Running
    /\ workers[w].pc = "lock"
    /\ mutex.holder = {}
    /\ IF mutex.poisoned
       THEN /\ workers' = SetWorker(w, Ended("panicked"))
            /\ mutex' = mutex
       ELSE /\ workers' = SetWorker(w, [workers[w] EXCEPT !.pc = "open", !.entry = throughput])
            /\ mutex' = [mutex EXCEPT !.holder = {w}]
    /\ UNCHANGED <<throughput, app, devices, ui_pc, clicked, drawn, error_cell>>
    /\ UNCHANGED approx_vars

\* Context::from_device(device).expect(..) and
\* CommandQueue::create_default(..).expect(..): a failure panics while the
\* guard is held, which poisons the mutex as the guard is dropped
MeasureOpen(w) ==
    /\ Running
    /\ workers[w].pc = "open"
    /\ \E ok \in BOOLEAN :
          IF ok
          THEN /\ workers' = SetWorker(w, [workers[w] EXCEPT !.pc = "h2d", !.ctx = "ok"])
               /\ mutex' = mutex
          ELSE /\ workers' = SetWorker(w, [Ended("panicked") EXCEPT !.ctx = "failed"])
               /\ mutex' = [holder |-> mutex.holder \ {w}, poisoned |-> TRUE]
    /\ UNCHANGED <<throughput, app, devices, ui_pc, clicked, drawn, error_cell>>
    /\ UNCHANGED approx_vars

\* the error codes an OpenCL call may report
ClErrors == {"CL_OUT_OF_RESOURCES", "CL_MEM_OBJECT_ALLOCATION_FAILURE"}

\* Buffer::create, enqueue_write_buffer and finish, each ending measure
\* with Err through `?`, then the two host-to-device fields are written
MeasureH2D(w) ==
    /\ Running
    /\ workers[w].pc = "h2d"
    /\ \/ \E e \in ClErrors :
            /\ workers' = SetWorker(w, [workers[w] EXCEPT !.pc = "returned", !.ret = <<"Err", e>>])
            /\ throughput' = throughput
       \/ \E ticks \in 1..MaxTicks :
            /\ throughput' = [throughput EXCEPT
                                !.h2d_duration = ticks,
                                !.h2d_throughput = ThroughputOf(workers[w].data_size, ticks)]
            /\ workers' = SetWorker(w, [workers[w] EXCEPT !.pc = "d2h"])
    /\ UNCHANGED <<mutex, app, devices, ui_pc, clicked, drawn, error_cell>>
    /\ UNCHANGED approx_vars

\* enqueue_read_buffer and finish, each ending measure with Err through `?`,
\* then the two device-to-host fields are written and measure returns Ok(())
MeasureD2H(w) ==
    /\ Running
    /\ workers[w].pc = "d2h"
    /\ \/ \E e \in ClErrors :
            /\ workers' = SetWorker(w, [workers[w] EXCEPT !.pc = "returned", !.ret = <<"Err", e>>])
            /\ throughput' = throughput
       \/ \E ticks \in 1..MaxTicks :
            /\ throughput' = [throughput EXCEPT
                                !.d2h_duration = ticks,
                                !.d2h_throughput = ThroughputOf(workers[w].data_size, ticks)]
            /\ workers' = SetWorker(w, [workers[w] EXCEPT !.pc = "returned", !.ret = <<"Ok">>])
    /\ UNCHANGED <<mutex, app, devices, ui_pc, clicked, drawn, error_cell>>
    /\ UNCHANGED approx_vars

\* if let Err(e) = .. { *error = Some(format!("Error: {}", e)) }, then the
\* closure ends: the guard is dropped, and so is the closure's Arc of the
\* error cell, which frees the cell unless update() still holds its own Arc
\* (it does from the spawn to the end of the if block, line 216)
WorkerEnd(w) ==
    /\ Running
    /\ workers[w].pc = "returned"
    /\ error_cell' = IF workers[w].ret[1] = "Err" /\ ui_pc = "spawned" /\ w = Len(workers)
                     THEN [error_cell EXCEPT ![w] = Some(Format(workers[w].ret[2]))]
                     ELSE error_cell
    /\ workers' = SetWorker(w, Ended("done"))
    /\ mutex' = [mutex EXCEPT !.holder = @ \ {w}]
    /\ UNCHANGED <<throughput, app, devices, ui_pc, clicked, drawn>>
    /\ UNCHANGED approx_vars

----------------------------------------------------------------------------
(* App::default and App::update, run by the UI thread once per frame *)

\* the value the slider is dragged to: the low end of its range, where the
\* buffer is shortest (the high end is SliderMax)
SliderChoices == {SliderMin}

NewApp ==
    [data_size |-> DefaultDataSize,
     h2d_throughput |-> 0, d2h_throughput |-> 0,
     h2d_duration |-> 0, d2h_duration |-> 0,
     pcie_speed |-> <<0, << >> >>,
     selected_device |-> None,
     measuring |-> FALSE,
     error_message |-> None]

\* if self.measuring { spinner } and if let Some(msg) = self.error_message
\* { colored_label(RED, msg) }
DrawConfig(a) == [spinner |-> a.measuring, error_label |-> a.error_message]

Unfinished == \E w \in Workers : workers[w].pc \in {"lock"} \cup InMeasure

NewWorker(device, data_size) ==
    [pc |-> "lock", device |-> Some(device), data_size |-> data_size,
     ctx |-> "pending", ret |-> None, entry |-> NewThroughput]

\* the widgets of the configuration column up to the Measure button: at most
\* one of them reports an interaction in a frame.  A click with a device
\* selected runs lines 191-212 and stops after the spawn; every other frame
\* runs on through the spinner and the error label.
UpdateBegin(slide, pick, click) ==
    /\ ui_pc = "idle"
    /\ Cardinality({x \in {slide # None, pick # None, click} : x}) <= 1
    /\ clicked' = click
    /\ LET a1 == IF slide # None THEN [app EXCEPT !.data_size = slide[1]] ELSE app
           a2 == IF pick # None THEN [a1 EXCEPT !.selected_device = pick] ELSE a1
       IN  IF click /\ a2.selected_device # None
           THEN /\ Len(workers) < MaxClicks
                /\ app' = [a2 EXCEPT !.measuring = TRUE, !.error_message = None]
                /\ workers' = Append(workers,
                                     NewWorker(a2.selected_device[1], DataSize(a2.data_size)))
                /\ error_cell' = Append(error_cell, None)
                /\ ui_pc' = "spawned"
                /\ UNCHANGED drawn
           ELSE /\ app' = a2
                /\ drawn' = DrawConfig(a2)
                /\ ui_pc' = "results"
                /\ UNCHANGED <<workers, error_cell>>
    /\ UNCHANGED <<throughput, mutex, devices>>
    /\ UNCHANGED approx_vars

\* lines 214-225 of a frame that spawned a worker: the flag is cleared, the
\* cell made for this click is read and update()'s Arc of it is dropped, then
\* the spinner and the label are drawn
UpdateAfterSpawn ==
    /\ ui_pc = "spawned"
    /\ LET a == [app EXCEPT !.measuring = FALSE,
                            !.error_message = error_cell[Len(error_cell)]]
       IN  /\ app' = a
           /\ drawn' = DrawConfig(a)
    /\ error_cell' = [error_cell EXCEPT ![Len(error_cell)] = None]
    /\ ui_pc' = "results"
    /\ UNCHANGED <<throughput, mutex, devices, clicked, workers>>
    /\ UNCHANGED approx_vars

\* lines 230-237: self.throughput.lock().unwrap() waits for the mutex and
\* panics when it is poisoned; otherwise the four fields are copied and the
\* link speed is estimated, and the frame ends
UpdateResults ==
    /\ ui_pc = "results"
    /\ mutex.holder = {}
    /\ IF mutex.poisoned
       THEN /\ ui_pc' = "panicked"
            /\ app' = app
       ELSE /\ ui_pc' = "idle"
            /\ \E order \in IterationOrders :
                  app' = [app EXCEPT
                            !.h2d_throughput = throughput.h2d_throughput,
                            !.d2h_throughput = throughput.d2h_throughput,
                            !.h2d_duration = throughput.h2d_duration,
                            !.d2h_duration = throughput.d2h_duration,
                            !.pcie_speed = approximate_link_speed(throughput, order)]
    /\ clicked' = FALSE
    /\ UNCHANGED <<throughput, mutex, devices, drawn, workers, error_cell>>
    /\ UNCHANGED approx_vars

----------------------------------------------------------------------------
(* The interactive program *)

NoCall == None

Init ==
    /\ throughput = NewThroughput
    /\ mutex = [holder |-> {}, poisoned |-> FALSE]
    /\ app = NewApp
    /\ devices \in {{}, 1..MaxDevices}
    /\ ui_pc = "idle"
    /\ clicked = FALSE
    /\ drawn = DrawConfig(NewApp)
    /\ workers = << >>
    /\ error_cell = << >>
    /\ measurement = NewThroughput
    /\ first_call = NoCall
    /\ second_call = NoCall

UiStep ==
    \/ \E mb \in SliderChoices : UpdateBegin(Some(mb), None, FALSE)
    \/ \E d \in devices : UpdateBegin(None, Some(d), FALSE)
    \/ \E click \in BOOLEAN : UpdateBegin(None, None, click)
    \/ UpdateAfterSpawn
    \/ UpdateResults

WorkerStep(w) ==
    \/ WorkerLock(w)
    \/ MeasureOpen(w)
    \/ MeasureH2D(w)
    \/ MeasureD2H(w)
    \/ WorkerEnd(w)

Next ==
    \/ UiStep
    \/ \E w \in Workers : WorkerStep(w)

Spec == Init /\ [][Next]_vars

\* The UI thread keeps drawing frames and the operating system keeps
\* scheduling every spawned thread; nothing obliges the user to click.
Redraw ==
    \/ UpdateBegin(None, None, FALSE)
    \/ UpdateAfterSpawn
    \/ UpdateResults

FairSpec ==
    /\ Spec
    /\ WF_vars(Redraw)
    /\ \A w \in 1..MaxClicks : WF_vars(w \in Workers /\ WorkerStep(w))

----------------------------------------------------------------------------
(* approximate_link_speed on its own: any Measurement, called twice *)

Measurements ==
    [h2d_throughput : 0..(MaxGBps * Scale), d2h_throughput : 0..(MaxGBps * Scale),
     h2d_duration : {0}, d2h_duration : {0}]

ApproxInit ==
    /\ throughput = NewThroughput
    /\ mutex = [holder |-> {}, poisoned |-> FALSE]
    /\ app = NewApp
    /\ devices = {}
    /\ ui_pc = "idle"
    /\ clicked = FALSE
    /\ drawn = DrawConfig(NewApp)
    /\ workers = << >>
    /\ error_cell = << >>
    /\ measurement \in Measurements
    /\ first_call = NoCall
    /\ second_call = NoCall

ApproxFirst ==
    /\ first_call = NoCall
    /\ \E order \in IterationOrders :
          first_call' = Some(approximate_link_speed(measurement, order))
    /\ UNCHANGED <<measurement, second_call>>
    /\ UNCHANGED gui_vars

ApproxSecond ==
    /\ first_call # NoCall
    /\ second_call = NoCall
    /\ \E order \in IterationOrders :
          second_call' = Some(approximate_link_speed(measurement, order))
    /\ UNCHANGED <<measurement, first_call>>
    /\ UNCHANGED gui_vars

ApproxNext == ApproxFirst \/ ApproxSecond

ApproxSpec == ApproxInit /\ [][ApproxNext]_vars

----------------------------------------------------------------------------
(* Properties *)

InsideMeasure == {w \in Workers : workers[w].pc \in InMeasure}

\* C1: the executions of measure on the shared Measurement are mutually
\* exclusive: at most one worker is between the start and the end of
\* measure, and it is the one holding the mutex.
C1_MeasureMutuallyExclusive ==
    /\ Cardinality(InsideMeasure) <= 1
    /\ \A w \in InsideMeasure : mutex.holder = {w}

C1_SecondWorkerWaits ==
    \E w1 \in Workers, w2 \in Workers :
        /\ workers[w1].pc \in InMeasure
        /\ workers[w2].pc = "lock"

\* C2: measure updates the Measurement as a unit: when it returns Err all
\* four fields have their values from before the call, and when it returns Ok
\* all four fields are values of this call.
C2_MeasureUpdatesAsUnit ==
    \A w \in Workers :
        workers[w].pc = "returned" =>
            IF workers[w].ret[1] = "Err"
            THEN throughput = workers[w].entry
            ELSE /\ throughput.h2d_duration \in 1..MaxTicks
                 /\ throughput.d2h_duration \in 1..MaxTicks
                 /\ throughput.h2d_throughput =
                        ThroughputOf(workers[w].data_size, throughput.h2d_duration)
                 /\ throughput.d2h_throughput =
                        ThroughputOf(workers[w].data_size, throughput.d2h_duration)

\* C3: when context (or command queue) creation fails, measure returns an
\* error value to its caller instead of aborting the calling thread, and the
\* Measurement is as it was on entry.
C3_ContextFailureReturnsErr ==
    \A w \in Workers :
        workers[w].ctx = "failed" =>
            /\ workers[w].pc = "returned"
            /\ workers[w].ret # None
            /\ workers[w].ret[1] = "Err"
            /\ throughput = workers[w].entry

\* C4: whenever a worker's call of measure returns a transfer error, some
\* later frame draws the red label with that error's text.
C4_ErrorEventuallyShown ==
    \A w \in 1..MaxClicks : \A e \in ClErrors :
        (w \in Workers /\ workers[w].pc = "returned" /\ workers[w].ret = <<"Err", e>>)
            ~> (drawn.error_label = Some(Format(e)))

\* C5: in every frame, the spinner check draws the spinner exactly when a
\* spawned worker has not yet finished measure.
C5_SpinnerWhileInFlight ==
    [][(ui_pc # "results" /\ ui_pc' = "results") => (drawn'.spinner = Unfinished')]_vars

Keys == DOMAIN pcie_speeds

Dist(k, r) == Abs(k - r)

\* the average of the two throughputs rounded to the nearest integer (halves
\* upwards), from the definition of rounding: |avg - r| <= 1/2
Nearest(m) ==
    LET sum == m.h2d_throughput + m.d2h_throughput
    IN  CHOOSE r \in 0..(sum + 1) :
            /\ 2 * Scale * r - Scale <= sum
            /\ sum < 2 * Scale * r + Scale

C6_Holds(call) ==
    LET r == Nearest(measurement)
        k == call[1]
        candidates == call[2]
    IN  /\ k \in Keys
        /\ \A k2 \in Keys : Dist(k, r) <= Dist(k2, r)
        /\ candidates = pcie_speeds[k]
        /\ Len(candidates) > 0
        /\ (r \in Keys => k = r)
        /\ (r >= 64 => k = 64)
        /\ (r <= 1 => k = 1)

\* C6: approximate_link_speed returns a table key at minimal distance from
\* the rounded average of the two throughputs, with exactly that key's
\* non-empty label list; a rounded average that is a key returns that key,
\* one of 64 or more returns 64, one of 1 or less returns 1.
C6_NearestKey ==
    /\ first_call # NoCall => C6_Holds(first_call[1])
    /\ second_call # NoCall => C6_Holds(second_call[1])

\* 5.0 and 6.0 GB/s: the average 5.5 rounds up to 6, between the keys 4 and 8
C6_RoundedUpToTie ==
    /\ measurement.h2d_throughput = 5 * Scale
    /\ measurement.d2h_throughput = 6 * Scale
    /\ first_call # NoCall
    /\ first_call[1][1] = 8

\* C7 as claimed: two invocations on the same Measurement return the same
\* key and the same candidate list, also when the rounded average is
\* equidistant from two keys.
C7_SameResultEveryCall ==
    (first_call # NoCall /\ second_call # NoCall) => first_call = second_call

TieValues == {3, 6, 12, 24, 48}

NearestKeys(r) == {k \in Keys : \A k2 \in Keys : Dist(k, r) <= Dist(k2, r)}

\* C7 as amended: two invocations on the same Measurement return the same
\* key and candidate list unless the rounded average is one of 3, 6, 12, 24,
\* 48; then each invocation returns one of the two keys nearest to it, with
\* that key's candidate list, and the two invocations may differ.
C7_SameResultUnlessTie ==
    (first_call # NoCall /\ second_call # NoCall) =>
        LET r == Nearest(measurement)
        IN  IF r \in TieValues
            THEN /\ Cardinality(NearestKeys(r)) = 2
                 /\ \A call \in {first_call[1], second_call[1]} :
                        /\ call[1] \in NearestKeys(r)
                        /\ call[2] = pcie_speeds[call[1]]
            ELSE first_call = second_call

C7_TieResolvedBothWays ==
    /\ first_call # NoCall
    /\ second_call # NoCall
    /\ Nearest(measurement) = 12
    /\ first_call[1][1] = 8
    /\ second_call[1][1] = 16

\* C8: a click on Measure Throughput with no device selected (always so when
\* no device was enumerated) spawns no worker and leaves the Measurement,
\* App.measuring and App.error_message unchanged; a worker is spawned only by
\* a click made with a device selected, and it measures that device with
\* MB * 1024 * 1024 / 4 floats for the slider value MB in 1..10000, never none.
C8_MeasureOnlyWithDevice ==
    [][/\ devices = {} => app'.selected_device = None
       /\ (ui_pc = "idle" /\ ui_pc' # "idle" /\ clicked' /\ app.selected_device = None) =>
             /\ workers' = workers
             /\ throughput' = throughput
             /\ app'.measuring = app.measuring
             /\ app'.error_message = app.error_message
       /\ Len(workers') # Len(workers) =>
             /\ Len(workers') = Len(workers) + 1
             /\ clicked'
             /\ app.selected_device # None
             /\ app.selected_device[1] \in devices
             /\ app'.data_size \in SliderMin..SliderMax
             /\ LET spawned == workers'[Len(workers')]
                IN  /\ spawned.pc = "lock"
                    /\ spawned.device = app.selected_device
                    /\ spawned.data_size * SizeOfF32 = app'.data_size * 1024
                    /\ spawned.data_size > 0
      ]_vars

C8_SpawnedForSecondDevice ==
    /\ ui_pc = "spawned"
    /\ clicked
    /\ app.data_size = SliderMin
    /\ app.selected_device = Some(MaxDevices)
    /\ workers[Len(workers)].device = Some(MaxDevices)
    /\ workers[Len(workers)].data_size > 0

\* C9: a frame's acquisition of the Measurement lock never waits for a
\* worker: whenever the UI thread is at the lock, the lock is free.
C9_FrameNeverWaits ==
    ui_pc = "results" => mutex.holder = {}

\* C10: the Measurement lock is never poisoned, so neither the render loop
\* nor a later worker aborts on acquiring it.
C10_NoAbortOnLock ==
    /\ ui_pc # "panicked"
    /\ \A w \in Workers : ~(workers[w].pc = "panicked" /\ workers[w].ctx # "failed")

====
